---- MODULE Spec2Model ----
(***************************************************************************)
(* Model of the RadianceCascade viewer: the offscreen multiview cascade    *)
(* renderer and the per-frame orchestration (src/src/renderer.rs,          *)
(* src/src/window/app.rs) and the tangent-space solver                     *)
(* (src/src/primitives.rs).                                                *)
(*                                                                         *)
(* Spec     the renderer: OffScreenRenderer::new at construction, then     *)
(*          App::handle_redraw frame after frame.                          *)
(* TbnSpec  ObjScene::tbn applied to bounded meshes.                       *)
(***************************************************************************)
EXTENDS Integers, Sequences, FiniteSets, TLC

VARIABLES
    \* OffScreenRenderer (renderer.rs:682-688) and what new() builds
    max_multiview_view_count,
    projections,
    texture_views,
    depth_buffer_views,
    render_bundle,
    \* AppState.cascade_passes (read at renderer.rs:1055)
    cascade_passes,
    \* App::handle_redraw (window/app.rs:220-265)
    pc,
    frame,
    surface_texture,
    encoder,
    render_draw_count,
    submitted,
    presented,
    fault,
    \* ObjScene::tbn (primitives.rs:260-364)
    mesh,
    tri,
    last_solve,
    last_normal,
    temp_tangents,
    temp_bitangents,
    temp_normal,
    count_triangles_included,
    tbn_out,
    \* DefaultRenderer::new (renderer.rs:177-613): the asset it reads, how far
    \* it has come, and what ObjScene::load returned
    asset,
    load_pc,
    load_result,
    \* vertex.rs UniformMaterial blocks of the loaded models
    vertex_uniforms,
    \* DefaultRenderer (renderer.rs:160-174); main_render_bundle is its field
    \* render_bundle
    geoms,
    main_render_bundle,
    light_buffer,
    depth_texture,
    \* AppInternal.surface_config and AppInternal.app_state
    \* (window/app.rs:18-26, app.rs:9-21)
    surface_config,
    app_state,
    \* DefaultRenderer.debug_renderer (renderer.rs:25-31)
    debug_renderer

render_vars == <<max_multiview_view_count, projections, texture_views,
                 depth_buffer_views, render_bundle, cascade_passes, pc, frame,
                 surface_texture, encoder, render_draw_count, submitted,
                 presented, fault>>

tbn_vars == <<mesh, tri, last_solve, last_normal, temp_tangents, temp_bitangents,
              temp_normal, count_triangles_included, tbn_out>>

load_vars == <<asset, load_pc, load_result, vertex_uniforms>>

app_vars == <<geoms, main_render_bundle, light_buffer, depth_texture,
              surface_config, app_state, debug_renderer>>

vars == <<render_vars, tbn_vars, load_vars, app_vars>>

-----------------------------------------------------------------------------
(* Bounds of the model *)

MaxM == 16

MaxPasses == 3

MaxFrames == 2

(* Program constants *)

SLICES == 256

AXES == 6

GENERATIONS == 2

PIPELINE_MULTIVIEW == 32

-----------------------------------------------------------------------------
(* OffScreenRenderer::new *)

\* a batch count that forgets the partial last batch
MultiviewDrawCountFloor(m) == SLICES \div m

\* renderer.rs:715-716 and 1056-1057: SLICES / M + (SLICES % M > 0) as u32
MultiviewDrawCount(m) ==
    (SLICES \div m) + (IF SLICES % m > 0 THEN 1 ELSE 0)

\* renderer.rs:722-725: x, y, z of the direction handed to
\* DirectionalProjection::new for axis index j (back_forth is computed at
\* line 722 and never used)
AxisDirection(j) ==
    <<IF j \div 3 = 0 THEN 1 ELSE 0,
      IF j \div 3 = 1 THEN 1 ELSE 0,
      IF j \div 3 = 2 THEN 1 ELSE 0>>

\* renderer.rs:726: every batch iterates k over 0..max_multiview_view_count
LayerRange(m, i) == 0 .. (m - 1)

\* renderer.rs:728-739: one projection per layer k of batch i and axis j;
\* near and far are kept in tenths: -10 + slice * 0.1, -10 + (slice+1) * 0.1
Projection(m, i, j, k) ==
    [slice     |-> i * m + k,
     direction |-> AxisDirection(j),
     near10    |-> (i * m + k) - 100,
     far10     |-> (i * m + k + 1) - 100]

\* renderer.rs:718-745
BuildProjections(m) ==
    [i \in 0 .. (MultiviewDrawCount(m) - 1) |->
        [j \in 0 .. (AXES - 1) |->
            [k \in LayerRange(m, i) |-> Projection(m, i, j, k)]]]

\* renderer.rs:818-869: the offscreen render pipeline; its multiview count is
\* the literal at line 867, whatever limit m was queried
render_pipeline(m) == [multiview |-> PIPELINE_MULTIVIEW]

\* SLICES layers whatever the limit
TextureLayersFixed(m) == SLICES

\* renderer.rs:880-881 and 919-920: depth_or_array_layers of every texture
TextureLayers(m) ==
    IF SLICES >= m * MultiviewDrawCount(m) THEN SLICES
                                           ELSE m * MultiviewDrawCount(m)

\* renderer.rs:890-910 (kind "color") and 927-949 (kind "depth"):
\* [generation][axis][batch]
BuildViews(m, kind) ==
    [idx \in 0 .. (GENERATIONS - 1) |->
        [j \in 0 .. (AXES - 1) |->
            [i \in 0 .. (MultiviewDrawCount(m) - 1) |->
                [kind             |-> kind,
                 generation       |-> idx,
                 axis             |-> j,
                 base_array_layer |-> i * m,
                 array_layer_count |-> m]]]]

\* every bundle sampling the scene bind group of the other generation
BuildRenderBundlesCrossed(m) ==
    [idx \in 0 .. (GENERATIONS - 1) |->
        [i \in 0 .. (MultiviewDrawCount(m) - 1) |->
            [j \in 0 .. (AXES - 1) |->
                [generation |-> idx,
                 batch      |-> i,
                 axis       |-> j,
                 multiview  |-> m,
                 scene_bind_group  |-> (idx + 1) % 2,
                 camera_bind_group |-> <<i, j>>]]]]

\* renderer.rs:974-1037: [generation][batch][axis]; the bundle samples
\* scene_bind_groups[idx] and uses camera_bind_group[i][j]
BuildRenderBundles(m) ==
    [idx \in 0 .. (GENERATIONS - 1) |->
        [i \in 0 .. (MultiviewDrawCount(m) - 1) |->
            [j \in 0 .. (AXES - 1) |->
                [generation |-> idx,
                 batch      |-> i,
                 axis       |-> j,
                 multiview  |-> m,
                 scene_bind_group  |-> idx,
                 camera_bind_group |-> <<i, j>>]]]]

-----------------------------------------------------------------------------
(* OffScreenRenderer::render *)

NoBundle == [generation |-> -1, batch |-> -1, axis |-> -1, multiview |-> 0,
             scene_bind_group |-> -1, camera_bind_group |-> <<-1, -1>>]

\* writing into the generation of the pass itself
WriteGenerationSame(pass) == pass % 2

\* renderer.rs:1072 and 1086: ((pass + 1) & 1)
WriteGeneration(pass) == (pass + 1) % 2

\* renderer.rs:1097: render_bundle[pass as usize] is an index into an array
\* of GENERATIONS entries; out of range it panics
BundleIndexInRange(pass) == pass \in DOMAIN render_bundle

\* renderer.rs:1061-1097: one render pass of the triple loop
OffscreenPass(pass, i, j) ==
    [op     |-> "offscreen_pass",
     pass   |-> pass,
     batch  |-> i,
     axis   |-> j,
     color  |-> texture_views[WriteGeneration(pass)][j][i],
     depth  |-> depth_buffer_views[WriteGeneration(pass)][j][i],
     clear  |-> <<0, 0, 0, 1>>,
     clear_depth |-> 1,
     bundle |-> IF BundleIndexInRange(pass) THEN render_bundle[pass][i][j]
                                            ELSE NoBundle]

\* renderer.rs:1055-1100: the passes the triple loop records when it runs
\* `passes` full passes, in loop order (pass, then batch i, then axis j)
OffscreenPasses(passes, k) ==
    [n \in 1 .. (passes * k * AXES) |->
        OffscreenPass((n - 1) \div (k * AXES),
                      ((n - 1) % (k * AXES)) \div AXES,
                      (n - 1) % AXES)]

\* the number of passes that complete before render_bundle[pass] leaves
\* the array
CompletedPasses(cp) ==
    IF cp <= GENERATIONS THEN cp ELSE GENERATIONS

\* renderer.rs:1055-1100, whole function: the commands recorded into the
\* encoder; when a pass index leaves render_bundle, the render pass of
\* (pass, 0, 0) has been begun (line 1061) and the indexing at line 1097
\* panics
OffscreenRender(cp) ==
    LET k == MultiviewDrawCount(max_multiview_view_count)
        done == OffscreenPasses(CompletedPasses(cp), k)
    IN  IF cp > GENERATIONS
            THEN Append(done, OffscreenPass(GENERATIONS, 0, 0))
            ELSE done

-----------------------------------------------------------------------------
(* DefaultRenderer::render *)

\* the debug geometry drawn before the scene bundle
MainPassDebugFirst ==
    <<[op |-> "begin_main_pass", clear |-> <<0, 0, 0, 1>>, clear_depth |-> 1],
      [op |-> "debug_draw"],
      [op |-> "execute_main_bundle"]>>

\* renderer.rs:622-653
MainPass ==
    <<[op |-> "begin_main_pass", clear |-> <<0, 0, 0, 1>>, clear_depth |-> 1],
      [op |-> "execute_main_bundle"],
      [op |-> "debug_draw"]>>

UiPass == <<[op |-> "ui_pass"]>>

-----------------------------------------------------------------------------
(* f32 values of the tangent-space solver.  A value is one of                *)
(*   <<n, d>>        the rational n/d, d > 0, in lowest terms                *)
(*   <<0, 0>>        NaN                                                     *)
(*   <<s, n, d, 2>>  s * sqrt(n/d), s in {-1, 1}, n/d not a rational square  *)
(*   <<0, 0, 0>>     a value outside this representation                     *)
(* Rounding is not modelled: arithmetic is exact.                            *)

Abs(x) == IF x < 0 THEN -x ELSE x

RECURSIVE GCD(_, _)
GCD(a, b) == IF b = 0 THEN a ELSE GCD(b, a % b)

Reduce(n, d, g) ==
    IF d < 0 THEN <<(-n) \div g, (-d) \div g>> ELSE <<n \div g, d \div g>>

Rat(n, d) == Reduce(n, d, GCD(Abs(n), Abs(d)))

F(n) == <<n, 1>>

NaN == <<0, 0>>

Irrep == <<0, 0, 0>>

IsNaN(x) == x = NaN

IsRat(x) == Len(x) = 2 /\ x[2] > 0

FAdd(x, y) ==
    IF IsNaN(x) \/ IsNaN(y) THEN NaN
    ELSE IF ~IsRat(x) \/ ~IsRat(y) THEN Irrep
    ELSE Rat(x[1] * y[2] + y[1] * x[2], x[2] * y[2])

FNeg(x) == IF IsRat(x) THEN <<-x[1], x[2]>> ELSE x

FSub(x, y) == FAdd(x, FNeg(y))

FMul(x, y) ==
    IF IsNaN(x) \/ IsNaN(y) THEN NaN
    ELSE IF ~IsRat(x) \/ ~IsRat(y) THEN Irrep
    ELSE Rat(x[1] * y[1], x[2] * y[2])

\* every division of the solver is by a value tested non-zero first
\* (LU pivots, the triangle counter); 0/0 is NaN
FDiv(x, y) ==
    IF IsNaN(x) \/ IsNaN(y) THEN NaN
    ELSE IF ~IsRat(x) \/ ~IsRat(y) THEN Irrep
    ELSE IF y[1] = 0 THEN NaN
    ELSE Rat(x[1] * y[2], x[2] * y[1])

FIsZero(x) == IsRat(x) /\ x[1] = 0

\* |x| > |y| on rationals
FAbsGreater(x, y) == Abs(x[1]) * y[2] > Abs(y[1]) * x[2]

IsSquare(n) == \E k \in 0 .. n : k * k = n

ISqrt(n) == CHOOSE k \in 0 .. n : k * k = n

(* glam Vec2 / Vec3 *)

vec2(x, y) == <<F(x), F(y)>>

vec3(x, y, z) == <<F(x), F(y), F(z)>>

Vec3_ZERO == vec3(0, 0, 0)

Vec3_X == vec3(1, 0, 0)

Vec3_Y == vec3(0, 1, 0)

Vec3_Z == vec3(0, 0, 1)

Vec2_ZERO == vec2(0, 0)

NaNVec == <<NaN, NaN, NaN>>

VAdd(u, v) == [c \in DOMAIN u |-> FAdd(u[c], v[c])]

VSub(u, v) == [c \in DOMAIN u |-> FSub(u[c], v[c])]

VScale(v, r) == [c \in DOMAIN v |-> FMul(v[c], r)]

VDiv(v, r) == [c \in DOMAIN v |-> FDiv(v[c], r)]

\* glam Vec3::cross
cross(u, v) ==
    <<FSub(FMul(u[2], v[3]), FMul(v[2], u[3])),
      FSub(FMul(u[3], v[1]), FMul(v[3], u[1])),
      FSub(FMul(u[1], v[2]), FMul(v[1], u[2]))>>

LengthSquared(v) ==
    FAdd(FAdd(FMul(v[1], v[1]), FMul(v[2], v[2])), FMul(v[3], v[3]))

\* c / sqrt(q) for rational c and rational q > 0
SignedRoot(s, r) ==
    IF IsSquare(r[1]) /\ IsSquare(r[2])
        THEN Rat(s * ISqrt(r[1]), ISqrt(r[2]))
        ELSE <<s, r[1], r[2], 2>>

OverSqrt(c, q) ==
    SignedRoot(IF c[1] < 0 THEN -1 ELSE 1, FDiv(FMul(c, c), q))

\* glam Vec3::normalize: self * (1 / length); a zero vector gives
\* 0 * inf = NaN in every component, a NaN component makes the length NaN
Scaled(v, q) ==
    IF IsNaN(q) \/ FIsZero(q) THEN NaNVec
    ELSE IF ~IsRat(q) THEN <<Irrep, Irrep, Irrep>>
    ELSE [c \in DOMAIN v |-> OverSqrt(v[c], q)]

normalize(v) == Scaled(v, LengthSquared(v))

-----------------------------------------------------------------------------
(* tb_solver (primitives.rs:177-190) *)

\* glam mat2(x_axis, y_axis): a matrix given by its two COLUMNS;
\* the conversion into nalgebra::Matrix2 keeps the columns
mat2(x_axis, y_axis) == <<x_axis, y_axis>>

\* entry (row r, column c) of a column-major matrix
At(m, r, c) == m[c][r]

\* nalgebra LU::new on a 2x2 matrix: partial pivoting on column 0 (the first
\* entry of largest absolute value), a column without a non-zero entry is
\* skipped, then one Gauss step
GaussStep(swap, r1, r2, l) ==
    [swap |-> swap, u11 |-> r1[1], u12 |-> r1[2],
     l21 |-> l, u22 |-> FSub(r2[2], FMul(l, r1[2]))]

Pivoted(swap, r1, r2) ==
    IF FIsZero(r1[1])
        THEN [swap |-> FALSE, u11 |-> r1[1], u12 |-> r1[2],
              l21 |-> r2[1], u22 |-> r2[2]]
        ELSE GaussStep(swap, r1, r2, FDiv(r2[1], r1[1]))

LU_new(m) ==
    IF FAbsGreater(At(m, 2, 1), At(m, 1, 1))
        THEN Pivoted(TRUE, <<At(m, 2, 1), At(m, 2, 2)>>,
                           <<At(m, 1, 1), At(m, 1, 2)>>)
        ELSE Pivoted(FALSE, <<At(m, 1, 1), At(m, 1, 2)>>,
                            <<At(m, 2, 1), At(m, 2, 2)>>)

None == [some |-> FALSE, t |-> Vec3_ZERO, b |-> Vec3_ZERO]

Some(t, b) == [some |-> TRUE, t |-> t, b |-> b]

\* nalgebra LU::solve on the 2x3 right-hand side with rows b1, b2: permute,
\* forward substitution with unit diagonal, back substitution, which gives
\* up (None) on a zero diagonal entry of U
BackSubstituteRow1(lu, y1, x2) ==
    Some(VDiv(VSub(y1, VScale(x2, lu.u12)), lu.u11), x2)

BackSubstitute(lu, y1, y2) ==
    IF FIsZero(lu.u22) \/ FIsZero(lu.u11)
        THEN None
        ELSE BackSubstituteRow1(lu, y1, VDiv(y2, lu.u22))

ForwardSubstitute(lu, p1, p2) ==
    BackSubstitute(lu, p1, VSub(p2, VScale(p1, lu.l21)))

LU_solve(lu, b1, b2) ==
    IF lu.swap THEN ForwardSubstitute(lu, b2, b1)
               ELSE ForwardSubstitute(lu, b1, b2)

\* a solver that hands back zero vectors where the system has no solution
OrZero(r) == IF r.some THEN r ELSE Some(Vec3_ZERO, Vec3_ZERO)

tb_solver_unchecked(delta_uv_mat, delta_pos1, delta_pos2) ==
    OrZero(LU_solve(LU_new(delta_uv_mat), delta_pos1, delta_pos2))

\* primitives.rs:177-190
tb_solver(delta_uv_mat, delta_pos1, delta_pos2) ==
    LU_solve(LU_new(delta_uv_mat), delta_pos1, delta_pos2)

-----------------------------------------------------------------------------
(* ObjScene accessors *)

\* primitives.rs:233-240
vertices(md) == md.positions

\* primitives.rs:366-377: the texcoords, or nothing when their number is
\* not the number of vertices
texcoords(md) ==
    IF Len(md.positions) = Len(md.texcoords) THEN md.texcoords ELSE <<>>

\* the source index list as it is
indices_unreversed(md) == md.indices

\* primitives.rs:379-386: every triangle of the source index list reversed
indices(md) ==
    [n \in 1 .. Len(md.indices) |->
        md.indices[3 * ((n - 1) \div 3) + (3 - ((n - 1) % 3))]]

\* primitives.rs:262-268
temp_texcoords(md) ==
    IF Len(texcoords(md)) # Len(vertices(md))
        THEN [v \in 1 .. Len(vertices(md)) |-> Vec2_ZERO]
        ELSE texcoords(md)

\* primitives.rs:274: chunk number t (from 1) of indices(), as vertex numbers
\* counted from 1
Chunk(md, t) ==
    [c \in 1 .. 3 |-> indices(md)[3 * (t - 1) + c] + 1]

NumTriangles(md) == Len(md.indices) \div 3

\* primitives.rs:275-296: the deltas of chunk t and the solve
DeltasOf(c, pos, uv) ==
    [delta_pos1 |-> VSub(pos[c[2]], pos[c[1]]),
     delta_pos2 |-> VSub(pos[c[3]], pos[c[1]]),
     delta_uv1  |-> VSub(uv[c[2]], uv[c[1]]),
     delta_uv2  |-> VSub(uv[c[3]], uv[c[1]])]

Deltas(md, t) == DeltasOf(Chunk(md, t), vertices(md), temp_texcoords(md))

\* primitives.rs:296
SolveDeltas(d) ==
    tb_solver(mat2(d.delta_uv1, d.delta_uv2), d.delta_pos1, d.delta_pos2)

Solve(md, t) == SolveDeltas(Deltas(md, t))

\* the cross product taken in the other order
normal_candidate_swapped(solve) == normalize(cross(solve.t, solve.b))

\* primitives.rs:311: bitangent.cross(tangent).normalize()
normal_candidate(solve) == normalize(cross(solve.b, solve.t))

\* primitives.rs:313-325: acc[c[0]] += x; acc[c[1]] += x; acc[c[2]] += x,
\* one after the other (a vertex named twice receives x twice)
RECURSIVE AddAt(_, _, _, _)
AddAt(acc, c, n, x) ==
    IF n = 0 THEN acc
    ELSE [AddAt(acc, c, n - 1, x) EXCEPT ![c[n]] = VAdd(@, x)]

RECURSIVE IncAt(_, _, _)
IncAt(cnt, c, n) ==
    IF n = 0 THEN cnt
    ELSE [IncAt(cnt, c, n - 1) EXCEPT ![c[n]] = @ + 1]

\* an average without the test on the counter
AverageUnguarded(acc, count, fallback) == normalize(VDiv(acc, F(count)))

\* primitives.rs:333-339, 344-350, 355-361
Average(acc, count, fallback) ==
    IF count > 0 THEN normalize(VDiv(acc, F(count))) ELSE fallback

-----------------------------------------------------------------------------
(* Option<T>: <<>> is None, <<x>> is Some(x) *)

is_some(o) == o # <<>>

unwrap_or(o, x) == IF o # <<>> THEN o[1] ELSE x

-----------------------------------------------------------------------------
(* ObjScene::tbn as a function of the mesh (primitives.rs:260-364) *)

\* primitives.rs:270-273
ZeroAccumulators(md) ==
    [temp_tangents   |-> [v \in 1 .. Len(vertices(md)) |-> Vec3_ZERO],
     temp_bitangents |-> [v \in 1 .. Len(vertices(md)) |-> Vec3_ZERO],
     temp_normal     |-> [v \in 1 .. Len(vertices(md)) |-> Vec3_ZERO],
     count_triangles_included |-> [v \in 1 .. Len(vertices(md)) |-> 0]]

\* primitives.rs:310-326
AccumulateSolve(a, c, solve) ==
    IF solve.some
        THEN [temp_tangents   |-> AddAt(a.temp_tangents, c, 3, solve.t),
              temp_bitangents |-> AddAt(a.temp_bitangents, c, 3, solve.b),
              temp_normal     |->
                  AddAt(a.temp_normal, c, 3, normal_candidate(solve)),
              count_triangles_included |->
                  IncAt(a.count_triangles_included, c, 3)]
        ELSE a

\* primitives.rs:274-327: the accumulators after the first t triangles
RECURSIVE Accumulated(_, _)
Accumulated(md, t) ==
    IF t = 0 THEN ZeroAccumulators(md)
    ELSE CHOOSE r \in {AccumulateSolve(a, c, solve) :
                          a \in {Accumulated(md, t - 1)},
                          c \in {Chunk(md, t)},
                          solve \in {Solve(md, t)}} : TRUE

\* primitives.rs:329-363
Averages(a) ==
    [tangents |->
        [v \in DOMAIN a.temp_tangents |->
            Average(a.temp_tangents[v], a.count_triangles_included[v],
                    Vec3_X)],
     bitangents |->
        [v \in DOMAIN a.temp_bitangents |->
            Average(a.temp_bitangents[v], a.count_triangles_included[v],
                    Vec3_Y)],
     normals |->
        [v \in DOMAIN a.temp_normal |->
            Average(a.temp_normal[v], a.count_triangles_included[v],
                    Vec3_Z)]]

tbn(md) ==
    CHOOSE r \in {Averages(a) : a \in {Accumulated(md, NumTriangles(md))}} :
        TRUE

-----------------------------------------------------------------------------
(* The interleaved vertex buffer (renderer.rs:386-426) and its descriptor *)

Vec3_ONE == vec3(1, 1, 1)

\* primitives.rs:242-249
vertex_colors(md) == md.vertex_color

\* primitives.rs:251-258
normals(md) == md.normals

\* list.iter().chain(repeat(default)) at place v
ChainRepeat(list, v, default) ==
    IF v <= Len(list) THEN list[v] ELSE default

\* renderer.rs:398-407: normals().zip_longest(vertex_normal) keeps the left
\* entry where there is one and the right entry otherwise, then
\* chain(repeat(Vec3::Z))
ZipLongestLeft(left, right, v, default) ==
    IF v <= Len(left) THEN left[v]
    ELSE IF v <= Len(right) THEN right[v]
    ELSE default

\* mixing up the normal and the tangent of a vertex
VertexFloatsSwapped(md, t, v) ==
    vertices(md)[v]
        \o ChainRepeat(vertex_colors(md), v, Vec3_ONE)
        \o ChainRepeat(t.tangents, v, Vec3_X)
        \o ZipLongestLeft(normals(md), t.normals, v, Vec3_Z)
        \o ChainRepeat(t.bitangents, v, Vec3_Y)
        \o ChainRepeat(texcoords(md), v, Vec2_ZERO)

\* renderer.rs:388-425: the floats of vertex v, (((((a, b), c), d), e), f)
\* flattened in that order
VertexFloats(md, t, v) ==
    vertices(md)[v]
        \o ChainRepeat(vertex_colors(md), v, Vec3_ONE)
        \o ZipLongestLeft(normals(md), t.normals, v, Vec3_Z)
        \o ChainRepeat(t.tangents, v, Vec3_X)
        \o ChainRepeat(t.bitangents, v, Vec3_Y)
        \o ChainRepeat(texcoords(md), v, Vec2_ZERO)

\* renderer.rs:388-426: zip stops with vertices(), the only finite iterator;
\* flat_map concatenates the vertices in order
RECURSIVE FlatMapVertices(_, _, _)
FlatMapVertices(md, t, n) ==
    IF n = 0 THEN <<>>
    ELSE FlatMapVertices(md, t, n - 1) \o VertexFloats(md, t, n)

\* renderer.rs:387-426
vertex_data(md) ==
    CHOOSE r \in {FlatMapVertices(md, t, Len(vertices(md))) :
                     t \in {tbn(md)}} : TRUE

\* mem::size_of::<[f32; k]>()
SizeOfF32Array(k) == 4 * k

\* primitives.rs:193-231
vertex_descriptor ==
    [array_stride |-> SizeOfF32Array(17),
     attributes |->
        <<[offset |-> 0, shader_location |-> 0, format |-> "Float32x3"],
          [offset |-> SizeOfF32Array(3), shader_location |-> 1,
           format |-> "Float32x3"],
          [offset |-> SizeOfF32Array(6), shader_location |-> 2,
           format |-> "Float32x3"],
          [offset |-> SizeOfF32Array(9), shader_location |-> 3,
           format |-> "Float32x3"],
          [offset |-> SizeOfF32Array(12), shader_location |-> 4,
           format |-> "Float32x3"],
          [offset |-> SizeOfF32Array(15), shader_location |-> 5,
           format |-> "Float32x2"]>>]

-----------------------------------------------------------------------------
(* Materials (primitives.rs:37-83, 396-423; vertex.rs:14-76) *)

\* primitives.rs:75-83, #[derive(Default)]
Material_default ==
    [ambient |-> <<>>, diffuse |-> <<>>, specular |-> <<>>,
     shininess |-> <<>>, color_texture |-> <<>>, normal_texture |-> <<>>]

\* primitives.rs:400-404 and 408-412: ImageReader::open(p).ok() and then
\* decode().ok(); the path is modelled by what lies behind it
OpenAndDecode(p) == IF p = "image" THEN <<"image">> ELSE <<>>

\* path.and_then(|p| ...)
LoadTexture(path) == IF is_some(path) THEN OpenAndDecode(path[1]) ELSE <<>>

\* primitives.rs:396-423
material(scene) ==
    IF is_some(scene.materials)
        THEN <<[ambient   |-> scene.materials[1].ambient,
                diffuse   |-> scene.materials[1].diffuse,
                specular  |-> scene.materials[1].specular,
                shininess |-> scene.materials[1].shininess,
                color_texture  |->
                    LoadTexture(scene.materials[1].diffuse_texture),
                normal_texture |->
                    LoadTexture(scene.materials[1].normal_texture)]>>
        ELSE <<>>

\* primitives.rs:59-64: (2 * (v.is_some() as i32) - 1) as f32
op_vec3_to_vec4(v) ==
    unwrap_or(v, Vec3_ZERO) \o <<F(2 * (IF is_some(v) THEN 1 ELSE 0) - 1)>>

\* primitives.rs:54-73
UniformMaterial_from(value) ==
    [ambient   |-> op_vec3_to_vec4(value.ambient),
     diffuse   |-> op_vec3_to_vec4(value.diffuse),
     specular  |-> op_vec3_to_vec4(value.specular),
     shininess |-> unwrap_or(value.shininess, F(1)),
     _padding  |-> <<0, 0, 0>>]

\* primitives.rs:48-52
UniformMaterial_from_option(value) ==
    UniformMaterial_from(unwrap_or(value, Material_default))

\* vertex.rs:64-76 and 267-269: the material record of vertex.rs has no
\* textures
vertex_material(scene) ==
    IF is_some(scene.materials)
        THEN <<[ambient   |-> scene.materials[1].ambient,
                diffuse   |-> scene.materials[1].diffuse,
                specular  |-> scene.materials[1].specular,
                shininess |-> scene.materials[1].shininess]>>
        ELSE <<>>

\* vertex.rs:43-45: v.is_some() as i32 as f32
vertex_op_vec3_to_vec4(v) ==
    unwrap_or(v, Vec3_ZERO) \o <<F(IF is_some(v) THEN 1 ELSE 0)>>

\* vertex.rs:38-54
vertex_UniformMaterial_from(value) ==
    [ambient   |-> vertex_op_vec3_to_vec4(value.ambient),
     diffuse   |-> vertex_op_vec3_to_vec4(value.diffuse),
     specular  |-> vertex_op_vec3_to_vec4(value.specular),
     shininess |-> unwrap_or(value.shininess, F(-1)),
     _padding  |-> <<0, 0, 0>>]

\* vertex.rs:25-36
vertex_UniformMaterial_from_option(value) ==
    vertex_UniformMaterial_from(
        unwrap_or(value, [ambient |-> <<>>, diffuse |-> <<>>,
                          specular |-> <<>>, shininess |-> <<>>]))

\* the two bits exchanged: (normal as u32) | ((color as u32) << 1)
enable_bit_calc_swapped(color, normal) ==
    (IF normal THEN 1 ELSE 0) + 2 * (IF color THEN 1 ELSE 0)

\* renderer.rs:438-439: (color as u32) | ((normal as u32) << 1)
enable_bit_calc(color, normal) ==
    (IF color THEN 1 ELSE 0) + 2 * (IF normal THEN 1 ELSE 0)

\* renderer.rs:440-446: the texture, or the empty 2d placeholder
unwrap_texture(text) == unwrap_or(text, "empty_2d")

\* renderer.rs:447-489: the model has a material
GeomMaterialSome(m) ==
    [material_buffer   |-> UniformMaterial_from(m),
     color_texture     |-> unwrap_texture(m.color_texture),
     normal_texture    |-> unwrap_texture(m.normal_texture),
     enable_bit_buffer |->
        enable_bit_calc(is_some(m.color_texture), is_some(m.normal_texture)),
     enable_bit        |->
        enable_bit_calc(is_some(m.color_texture), is_some(m.normal_texture))]

\* renderer.rs:490-512: the model has none
GeomMaterialNone ==
    [material_buffer   |-> UniformMaterial_from(Material_default),
     color_texture     |-> unwrap_texture(<<>>),
     normal_texture    |-> unwrap_texture(<<>>),
     enable_bit_buffer |-> 0,
     enable_bit        |-> 0]

\* renderer.rs:437-513
GeomMaterial(m) ==
    IF is_some(m) THEN GeomMaterialSome(m[1]) ELSE GeomMaterialNone

\* renderer.rs:386-551, one iteration: the Geom pushed for a model; the
\* material bind group is given by its six bindings
GeomRecord(scene, mat) ==
    [vertex_buffer |-> vertex_data(scene.model.mesh),
     index_buffer  |-> indices(scene.model.mesh),
     material_bind_group |->
        <<mat.material_buffer, mat.enable_bit_buffer, mat.color_texture,
          "sampler", mat.normal_texture, "sampler">>,
     enable_bit        |-> mat.enable_bit,
     enable_bit_buffer |-> mat.enable_bit_buffer,
     model |-> scene]

Geom_new(scene) ==
    CHOOSE g \in {GeomRecord(scene, mat) :
                     mat \in {GeomMaterial(material(scene))}} : TRUE

\* the number of vertices of the model
vertex_count_positions(md) == Len(md.positions)

\* primitives.rs:388-390
vertex_count(md) == Len(md.indices)

\* renderer.rs:561-594: the commands recorded into the main bundle
RECURSIVE BundleDraws(_, _)
BundleDraws(gs, n) ==
    IF n = 0 THEN <<>>
    ELSE BundleDraws(gs, n - 1)
            \o <<[op |-> "set_bind_group", index |-> 1, geom |-> n],
                 [op |-> "set_vertex_buffer", geom |-> n],
                 [op |-> "set_index_buffer", geom |-> n],
                 [op |-> "draw_indexed", geom |-> n, first |-> 0,
                  count |-> vertex_count(gs[n].model.model.mesh)]>>

main_render_bundle_new(gs) ==
    <<[op |-> "set_pipeline"],
      [op |-> "set_bind_group", index |-> 0, geom |-> 0],
      [op |-> "set_bind_group", index |-> 2, geom |-> 0]>>
        \o BundleDraws(gs, Len(gs))

-----------------------------------------------------------------------------
(* ObjScene::load (primitives.rs:104-175) *)

\* primitives.rs:104-113: tobj::load_obj gives an error for the OBJ file, or
\* the models together with the result of loading the material library
load_obj(a) ==
    [ok           |-> a.obj = "ok",
     models       |-> a.models,
     materials_ok |-> a.mtl = "ok",
     materials    |-> a.materials]

\* primitives.rs:136-140 and 168: material_id.and_then(|i| materials.get(i))
MaterialOf(materials, md) ==
    IF is_some(md.mesh.material_id)
       /\ (md.mesh.material_id[1] + 1) \in DOMAIN materials
        THEN <<materials[md.mesh.material_id[1] + 1]>>
        ELSE <<>>

\* renderer.rs:185: |mt| mt.name == "Light"
light_predicate(mt) == mt.name = "Light"

RECURSIVE SumVec3(_, _)
SumVec3(list, n) ==
    IF n = 0 THEN Vec3_ZERO ELSE VAdd(SumVec3(list, n - 1), list[n])

\* primitives.rs:144-152: the sum of the positions over their number
PositionAverage(md) ==
    VDiv(SumVec3(md.mesh.positions, Len(md.mesh.positions)),
         F(Len(md.mesh.positions)))

\* primitives.rs:135-142: the models with a material that satisfies the
\* predicate, in order
LightModels(models, materials) ==
    SelectSeq(models,
              LAMBDA md : /\ is_some(MaterialOf(materials, md))
                          /\ light_predicate(MaterialOf(materials, md)[1]))

\* the last element of an iterator
take_1_next_last(list) == IF list = <<>> THEN <<>> ELSE <<list[Len(list)]>>

\* primitives.rs:154-155: .take(1).next()
take_1_next(list) == IF list = <<>> THEN <<>> ELSE <<list[1]>>

\* primitives.rs:133-155
LightOf(models, materials) ==
    take_1_next([n \in DOMAIN LightModels(models, materials) |->
                    PositionAverage(LightModels(models, materials)[n])])

\* primitives.rs:157-171
ScenesOf(models, materials) ==
    [n \in DOMAIN models |->
        [model     |-> models[n],
         materials |-> MaterialOf(materials, models[n])]]

LoadErr == [ok |-> FALSE, models |-> <<>>, light |-> <<>>]

\* primitives.rs:123-174: `?` on the OBJ result (line 131) and on the
\* material result (line 132)
load(a) ==
    IF ~load_obj(a).ok \/ ~load_obj(a).materials_ok
        THEN LoadErr
        ELSE [ok     |-> TRUE,
              models |-> ScenesOf(load_obj(a).models, load_obj(a).materials),
              light  |-> LightOf(load_obj(a).models, load_obj(a).materials)]

\* primitives.rs:26-35: (value, 1.0).into()
UniformLight_from(value) == value \o <<F(1)>>

\* renderer.rs:188-194
light_buffer_new(light, light_position) ==
    UniformLight_from(unwrap_or(light, light_position))

\* renderer.rs:313-321 and 657-665 without the lower limit of one pixel
DepthExtentUnclamped(config) ==
    [width |-> config.width, height |-> config.height,
     depth_or_array_layers |-> 1]

\* renderer.rs:313-321 and 657-665: the extent of the depth texture
DepthExtent(config) ==
    [width  |-> IF config.width > 1 THEN config.width ELSE 1,
     height |-> IF config.height > 1 THEN config.height ELSE 1,
     depth_or_array_layers |-> 1]

-----------------------------------------------------------------------------
(* AppState and the surface configuration *)

\* app.rs:23-37: light_position is [0.0; 3] and the two flags
\* normal_map_changed and given_light_position are false by Default
AppState_new ==
    [light_position       |-> Vec3_ZERO,
     light_input          |-> <<"0.0", "0.0", "0.0">>,
     given_light_position |-> FALSE,
     enable_normal_map    |-> TRUE,
     normal_map_changed   |-> FALSE]

\* window/app.rs:193-209: AppInternal::new is handed initial_width twice
InitialConfig == [width |-> 1360, height |-> 1360]

\* str::parse::<f32> on the texts the model types into a field
ParseF32(text) ==
    CASE text = "0.0" -> <<F(0)>>
      [] text = "1"   -> <<F(1)>>
      [] text = "2.5" -> <<Rat(5, 2)>>
      [] OTHER        -> <<>>

\* texts typed into a light field: three numbers and one that does not parse
LightInputs == {"0.0", "1", "2.5", "x"}

\* widget.rs:32-34 with a failed parse giving 0.0
EditFieldReset(st, c, text) ==
    [st EXCEPT !.light_input[c] = text,
               !.light_position[c] = unwrap_or(ParseF32(text), F(0))]

\* widget.rs:32-34: the field c was changed to text
EditField(st, c, text) ==
    [st EXCEPT !.light_input[c] = text,
               !.light_position[c] = unwrap_or(ParseF32(text), @)]

NoTexture == [width |-> 0, height |-> 0, depth_or_array_layers |-> 0]

-----------------------------------------------------------------------------
(* DefaultDebugRenderer (renderer.rs:25-158) *)

NoDebugRenderer == [vertex_buffer |-> <<>>, index_buffer |-> <<>>,
                    draw_count |-> 0]

\* renderer.rs:42-53 and 140-146: light_vertex is the first model loaded
\* from cube/cube.obj
DefaultDebugRenderer_new(light_vertex) ==
    [vertex_buffer |-> vertices(light_vertex),
     index_buffer  |-> indices(light_vertex),
     draw_count    |-> Len(vertices(light_vertex))]

\* renderer.rs:150-157: the indexed draw of the light indicator
DebugDraw(dr) == [op |-> "draw_indexed", first |-> 0, count |-> dr.draw_count]

\* meshes cube/cube.obj may hold: a quad of two triangles, and one triangle
IndicatorMeshes ==
    {[positions |-> <<vec3(0, 0, 0), vec3(1, 0, 0), vec3(1, 1, 0),
                      vec3(0, 1, 0)>>,
      indices   |-> <<0, 1, 2, 0, 2, 3>>],
     [positions |-> <<vec3(0, 0, 0), vec3(1, 0, 0), vec3(0, 1, 0)>>,
      indices   |-> <<0, 1, 2>>]}

\* the indicator of the frame loop
SceneIndicator ==
    [positions |-> <<vec3(0, 0, 0), vec3(1, 0, 0), vec3(1, 1, 0),
                     vec3(0, 1, 0)>>,
     indices   |-> <<0, 1, 2, 0, 2, 3>>]

-----------------------------------------------------------------------------
(* Bounded meshes *)

NoOutput == [done |-> FALSE, tangents |-> <<>>, bitangents |-> <<>>,
             normals |-> <<>>]

MaxTris == 2

UCoords == {0, 1, 2}

VCoords == {0, 1}

\* positions in the plane z = 0, which keeps every face normal on the z axis
Positions == {vec3(1, 0, 0), vec3(0, 1, 0), vec3(-1, 0, 0)}

UVs == {vec2(u, v) : u \in UCoords, v \in VCoords}

\* four vertices, the first at the origin
PositionLists ==
    {<<Vec3_ZERO, p1, p2, p3>> : p1 \in Positions, p2 \in Positions,
                                 p3 \in Positions}

\* one texcoord per vertex, or a list of another length (none at all, or
\* one short)
TexcoordLists ==
    {<<Vec2_ZERO, t1, t2, t3>> : t1 \in UVs, t2 \in UVs, t3 \in UVs}
        \cup {<<>>, <<Vec2_ZERO, vec2(1, 0), vec2(0, 1)>>}

SourceTriangles == {<<0, 1, 2>>, <<0, 2, 3>>}

RECURSIVE IndexListsOf(_)
IndexListsOf(n) ==
    IF n = 1 THEN {<<0, 1, 2>>}
    ELSE {l \o t : l \in IndexListsOf(n - 1), t \in SourceTriangles}

IndexLists == UNION {IndexListsOf(n) : n \in 1 .. MaxTris}

-----------------------------------------------------------------------------
(* TbnSpec: ObjScene::tbn, one step per triangle of the loop at line 274 *)

RenderIdle ==
    /\ max_multiview_view_count = 1
    /\ projections = <<>>
    /\ texture_views = <<>>
    /\ depth_buffer_views = <<>>
    /\ render_bundle = <<>>
    /\ cascade_passes = 0
    /\ pc = "idle"
    /\ frame = 0
    /\ surface_texture = "none"
    /\ encoder = <<>>
    /\ render_draw_count = 0
    /\ submitted = <<>>
    /\ presented = <<>>
    /\ fault = "none"

NoAsset == [obj |-> "none", mtl |-> "none", models |-> <<>>,
            materials |-> <<>>]

\* DefaultRenderer::new has not been called
LoadIdle ==
    /\ asset = NoAsset
    /\ load_pc = "idle"
    /\ load_result = LoadErr
    /\ vertex_uniforms = <<>>

NoRenderer ==
    /\ geoms = <<>>
    /\ main_render_bundle = <<>>
    /\ light_buffer = <<>>
    /\ depth_texture = NoTexture
    /\ debug_renderer = NoDebugRenderer

AppIdle ==
    /\ NoRenderer
    /\ surface_config = InitialConfig
    /\ app_state = AppState_new

\* primitives.rs:261-273
TbnInit ==
    /\ mesh \in [positions : PositionLists, texcoords : TexcoordLists,
                 indices : IndexLists]
    /\ tri = 0
    /\ last_solve = None
    /\ last_normal = Vec3_ZERO
    /\ temp_tangents = [v \in 1 .. Len(vertices(mesh)) |-> Vec3_ZERO]
    /\ temp_bitangents = [v \in 1 .. Len(vertices(mesh)) |-> Vec3_ZERO]
    /\ temp_normal = [v \in 1 .. Len(vertices(mesh)) |-> Vec3_ZERO]
    /\ count_triangles_included = [v \in 1 .. Len(vertices(mesh)) |-> 0]
    /\ tbn_out = NoOutput
    /\ RenderIdle
    /\ LoadIdle
    /\ AppIdle

\* primitives.rs:274-327, one iteration
TbnTriangle ==
    /\ ~tbn_out.done
    /\ tri < NumTriangles(mesh)
    /\ \E t \in {tri + 1}, c \in {Chunk(mesh, tri + 1)},
          solve \in {Solve(mesh, tri + 1)} :
           /\ tri' = t
           /\ last_solve' = solve
           /\ IF solve.some
                 THEN \E normal \in {normal_candidate(solve)} :
                          /\ last_normal' = normal
                          /\ temp_tangents' = AddAt(temp_tangents, c, 3, solve.t)
                          /\ temp_bitangents' =
                                AddAt(temp_bitangents, c, 3, solve.b)
                          /\ temp_normal' = AddAt(temp_normal, c, 3, normal)
                          /\ count_triangles_included' =
                                IncAt(count_triangles_included, c, 3)
                 ELSE UNCHANGED <<last_normal, temp_tangents,
                                  temp_bitangents, temp_normal,
                                  count_triangles_included>>
    /\ UNCHANGED <<mesh, tbn_out>>
    /\ UNCHANGED render_vars
    /\ UNCHANGED load_vars
    /\ UNCHANGED app_vars

\* primitives.rs:329-363
TbnFinish ==
    /\ ~tbn_out.done
    /\ tri = NumTriangles(mesh)
    /\ tbn_out' =
          [done |-> TRUE,
           tangents |->
              [v \in DOMAIN temp_tangents |->
                  Average(temp_tangents[v], count_triangles_included[v],
                          Vec3_X)],
           bitangents |->
              [v \in DOMAIN temp_bitangents |->
                  Average(temp_bitangents[v], count_triangles_included[v],
                          Vec3_Y)],
           normals |->
              [v \in DOMAIN temp_normal |->
                  Average(temp_normal[v], count_triangles_included[v],
                          Vec3_Z)]]
    /\ UNCHANGED <<mesh, tri, last_solve, last_normal, temp_tangents,
                   temp_bitangents, temp_normal, count_triangles_included>>
    /\ UNCHANGED render_vars
    /\ UNCHANGED load_vars
    /\ UNCHANGED app_vars

TbnNext ==
    \/ TbnTriangle
    \/ TbnFinish

TbnSpec == TbnInit /\ [][TbnNext]_vars

-----------------------------------------------------------------------------
(* ObjScene::tbn is idle under Spec *)

NoMesh == [positions |-> <<>>, texcoords |-> <<>>, indices |-> <<>>]

TbnIdle ==
    /\ mesh = NoMesh
    /\ tri = 0
    /\ last_solve = None
    /\ last_normal = Vec3_ZERO
    /\ temp_tangents = <<>>
    /\ temp_bitangents = <<>>
    /\ temp_normal = <<>>
    /\ count_triangles_included = <<>>
    /\ tbn_out = NoOutput

-----------------------------------------------------------------------------
(* Bounded assets *)

MaxModels == 2

\* the three vertices of a sub-model; the two shapes have different averages
FloorShape == <<vec3(0, 0, 0), vec3(3, 0, 0), vec3(0, 3, 0)>>

LampShape == <<vec3(0, 0, 6), vec3(3, 0, 6), vec3(0, 3, 6)>>

ModelShapes == {FloorShape, LampShape}

\* a tobj::Model of three vertices: the floor is one triangle, the lamp shows
\* both of its faces
TobjModel(ps, id) ==
    [name |-> "model",
     mesh |-> [positions |-> ps, vertex_color |-> <<>>, normals |-> <<>>,
               texcoords |-> <<>>,
               indices |-> IF ps = LampShape THEN <<0, 1, 2, 0, 2, 1>>
                                             ELSE <<0, 1, 2>>,
               material_id |-> id]]

\* tobj::Material records: nothing set, everything set, textures whose files
\* cannot be opened ("missing") or decoded ("garbage"), a color texture only
BareMaterial(name) ==
    [name |-> name, ambient |-> <<>>, diffuse |-> <<>>, specular |-> <<>>,
     shininess |-> <<>>, diffuse_texture |-> <<>>, normal_texture |-> <<>>]

FullMaterial(name) ==
    [name |-> name, ambient |-> <<vec3(1, 0, 0)>>,
     diffuse |-> <<vec3(0, 1, 0)>>, specular |-> <<vec3(0, 0, 1)>>,
     shininess |-> <<F(5)>>, diffuse_texture |-> <<"image">>,
     normal_texture |-> <<"image">>]

BrokenTextureMaterial ==
    [name |-> "Wall", ambient |-> <<>>, diffuse |-> <<vec3(0, 1, 0)>>,
     specular |-> <<>>, shininess |-> <<>>, diffuse_texture |-> <<"missing">>,
     normal_texture |-> <<"garbage">>]

ColorTextureMaterial ==
    [name |-> "Wall", ambient |-> <<>>, diffuse |-> <<vec3(0, 1, 0)>>,
     specular |-> <<>>, shininess |-> <<F(5)>>,
     diffuse_texture |-> <<"image">>, normal_texture |-> <<>>]

TobjMaterials ==
    {BareMaterial("Light"), FullMaterial("Light"), BareMaterial("Wall"),
     FullMaterial("Wall"), BrokenTextureMaterial, ColorTextureMaterial}

MaterialLists ==
    {<<>>} \cup {<<m>> : m \in TobjMaterials}
           \cup {<<m1, m2>> : m1 \in TobjMaterials, m2 \in TobjMaterials}

\* no material, or the index of one of the library
MaterialIds(ms) == {<<>>} \cup {<<i>> : i \in 0 .. (Len(ms) - 1)}

RECURSIVE ModelListsOf(_, _)
ModelListsOf(ms, n) ==
    IF n = 0 THEN {<<>>}
    ELSE {Append(l, TobjModel(ps, id)) :
             l \in ModelListsOf(ms, n - 1), ps \in ModelShapes,
             id \in MaterialIds(ms)}

ModelLists(ms) == UNION {ModelListsOf(ms, n) : n \in 1 .. MaxModels}

OkAssets ==
    UNION {{[obj |-> "ok", mtl |-> "ok", models |-> l, materials |-> ms] :
               l \in ModelLists(ms)} : ms \in MaterialLists}

\* an OBJ file or a material library that is missing or malformed
FailingAssets ==
    {[obj |-> o, mtl |-> "ok", models |-> <<>>, materials |-> <<>>] :
        o \in {"missing", "malformed"}}
    \cup
    {[obj |-> "ok", mtl |-> m,
      models |-> <<TobjModel(CHOOSE ps \in ModelShapes : TRUE, <<>>)>>,
      materials |-> <<>>] : m \in {"missing", "malformed"}}

Assets == OkAssets \cup FailingAssets

\* the scene of the frame loop: a textured wall and a light sub-mesh
SceneAsset ==
    [obj |-> "ok", mtl |-> "ok",
     materials |-> <<FullMaterial("Wall"), BareMaterial("Light")>>,
     models |-> <<TobjModel(FloorShape, <<0>>), TobjModel(LampShape, <<1>>)>>]

\* the sizes a Resized event carries
ResizeSizes == {<<0, 0>>, <<2, 3>>}

\* attribute lists of a sub-model with n vertices: none, fewer than n, n
FileColor(v) == vec3(5, 6, v)

FileNormal(v) == vec3(0, 7, v)

AttributeLists(n, entry(_)) ==
    {<<>>, [v \in 1 .. 2 |-> entry(v)], [v \in 1 .. n |-> entry(v)]}

GeomTexcoordLists ==
    {<<>>,
     <<Vec2_ZERO, vec2(1, 0), vec2(0, 1)>>,
     <<Vec2_ZERO, vec2(1, 0), vec2(0, 1), vec2(1, 1)>>,
     <<Vec2_ZERO, vec2(0, 1), vec2(1, 0), vec2(1, 1)>>}

\* one sub-model without a material, its attribute lists of every kind
GeomAssets ==
    {[obj |-> "ok", mtl |-> "ok", materials |-> <<>>,
      models |->
        <<[name |-> "model",
           mesh |-> [positions |-> ps, vertex_color |-> cs, normals |-> ns,
                     texcoords |-> ts, indices |-> is,
                     material_id |-> <<>>]]>>] :
        ps \in PositionLists, cs \in AttributeLists(4, FileColor),
        ns \in AttributeLists(4, FileNormal), ts \in GeomTexcoordLists,
        is \in IndexLists}

-----------------------------------------------------------------------------
(* LoadSpec and GeomSpec: DefaultRenderer::new up to the renderer without  *)
(* its offscreen part (renderer.rs:177-608), one step per model            *)

NewStart(assets) ==
    /\ asset \in assets
    /\ load_pc = "new"
    /\ load_result = LoadErr
    /\ vertex_uniforms = <<>>
    /\ AppIdle
    /\ RenderIdle
    /\ TbnIdle

LoadInit == NewStart(Assets)

GeomInit == NewStart(GeomAssets)

\* renderer.rs:184-385: ObjScene::load(..).unwrap(), which panics on Err, the
\* light buffer and the depth texture
NewLoad ==
    /\ load_pc = "new"
    /\ load_result' = load(asset)
    /\ IF load(asset).ok
          THEN /\ load_pc' = "geoms"
               /\ app_state' =
                     [app_state EXCEPT !.given_light_position =
                                           is_some(load(asset).light)]
               /\ light_buffer' =
                     light_buffer_new(load(asset).light,
                                      app_state.light_position)
               /\ depth_texture' = DepthExtent(surface_config)
          ELSE /\ load_pc' = "crashed"
               /\ UNCHANGED <<app_state, light_buffer, depth_texture>>
    /\ UNCHANGED <<asset, vertex_uniforms, geoms, main_render_bundle,
                   surface_config>>
    /\ UNCHANGED render_vars
    /\ UNCHANGED tbn_vars
    /\ UNCHANGED debug_renderer

\* renderer.rs:386-552, one iteration of `for model in models`
NewGeom ==
    /\ load_pc = "geoms"
    /\ Len(geoms) < Len(load_result.models)
    /\ geoms' = Append(geoms, Geom_new(load_result.models[Len(geoms) + 1]))
    /\ UNCHANGED <<main_render_bundle, light_buffer, depth_texture,
                   surface_config, app_state>>
    /\ UNCHANGED load_vars
    /\ UNCHANGED render_vars
    /\ UNCHANGED tbn_vars
    /\ UNCHANGED debug_renderer

\* renderer.rs:553-608: the debug renderer over the mesh of cube/cube.obj,
\* and the main bundle over the finished geometry list
NewFinish ==
    /\ load_pc = "geoms"
    /\ Len(geoms) = Len(load_result.models)
    /\ \E light_vertex \in IndicatorMeshes :
          debug_renderer' = DefaultDebugRenderer_new(light_vertex)
    /\ main_render_bundle' = main_render_bundle_new(geoms)
    /\ load_pc' = "done"
    /\ UNCHANGED <<asset, load_result, vertex_uniforms>>
    /\ UNCHANGED <<geoms, light_buffer, depth_texture, surface_config,
                   app_state>>
    /\ UNCHANGED render_vars
    /\ UNCHANGED tbn_vars

\* vertex.rs:25-54 and 267-269 applied to the loaded models, in order
VertexUniform ==
    /\ load_pc = "done"
    /\ Len(vertex_uniforms) < Len(load_result.models)
    /\ vertex_uniforms' =
          Append(vertex_uniforms,
                 vertex_UniformMaterial_from_option(
                     vertex_material(
                         load_result.models[Len(vertex_uniforms) + 1])))
    /\ UNCHANGED <<asset, load_pc, load_result>>
    /\ UNCHANGED app_vars
    /\ UNCHANGED render_vars
    /\ UNCHANGED tbn_vars

LoadNext ==
    \/ NewLoad
    \/ NewGeom
    \/ NewFinish
    \/ VertexUniform

LoadSpec == LoadInit /\ [][LoadNext]_vars

GeomSpec == GeomInit /\ [][LoadNext]_vars

-----------------------------------------------------------------------------
(* Spec: construction, then the redraw handler *)

\* DefaultRenderer::new (renderer.rs:177-608) finished on asset a
Constructed(a) ==
    /\ asset = a
    /\ load_pc = "done"
    /\ load_result = load(a)
    /\ vertex_uniforms = <<>>
    /\ geoms = [i \in 1 .. Len(load(a).models) |-> Geom_new(load(a).models[i])]
    /\ main_render_bundle = main_render_bundle_new(geoms)
    /\ light_buffer = light_buffer_new(load(a).light,
                                       AppState_new.light_position)
    /\ depth_texture = DepthExtent(InitialConfig)
    /\ surface_config = InitialConfig
    /\ app_state = [AppState_new EXCEPT !.given_light_position =
                                           is_some(load(a).light)]
    /\ debug_renderer = DefaultDebugRenderer_new(SceneIndicator)

\* the light text fields of the overlay (widget.rs:24-37): disabled when the
\* scene gave the light position, else at most one field changes in a frame
LightEdits(st) ==
    {<<>>} \cup
    IF st.given_light_position
       THEN {}
       ELSE {e \in (1 .. 3) \X LightInputs : e[2] # st.light_input[e[1]]}

\* widget.rs:7-47: the light fields, then the checkbox bound to
\* enable_normal_map (lines 42-45), clicked or not
widget_show(st, edit, click) ==
    [(IF edit = <<>> THEN st ELSE EditField(st, edit[1], edit[2]))
        EXCEPT !.enable_normal_map = IF click THEN ~@ ELSE @]

\* renderer.rs:671: enable_bit & ((enable_normal_map as u32) << 1 | 1)
MaskedEnableBit(enable_bit, enable_normal_map) ==
    IF enable_normal_map THEN enable_bit ELSE enable_bit % 2

\* renderer.rs:668-679: DefaultRenderer::update writes the enable-bit buffers
\* only when normal_map_changed is set
DefaultRenderer_update(gs, st) ==
    IF st.normal_map_changed
       THEN [i \in DOMAIN gs |->
               [gs[i] EXCEPT
                  !.enable_bit_buffer =
                     MaskedEnableBit(gs[i].enable_bit, st.enable_normal_map),
                  !.material_bind_group[2] =
                     MaskedEnableBit(gs[i].enable_bit, st.enable_normal_map)]]
       ELSE gs

\* OffScreenRenderer::new (renderer.rs:692-1045) for a queried limit m, and
\* App::new / AppInternal::new leaving the handler idle
Init ==
    /\ max_multiview_view_count \in 1 .. MaxM
    /\ projections = BuildProjections(max_multiview_view_count)
    /\ texture_views = BuildViews(max_multiview_view_count, "color")
    /\ depth_buffer_views = BuildViews(max_multiview_view_count, "depth")
    /\ render_bundle = BuildRenderBundles(max_multiview_view_count)
    /\ cascade_passes \in 0 .. MaxPasses
    /\ pc = "idle"
    /\ frame = 0
    /\ surface_texture = "none"
    /\ encoder = <<>>
    /\ render_draw_count = 0
    /\ submitted = <<>>
    /\ presented = <<>>
    /\ fault = "none"
    /\ TbnIdle
    /\ Constructed(SceneAsset)

\* window/app.rs:298-302 and 221-222: RedrawRequested enters handle_redraw,
\* which first calls state.update(dt)
RedrawUpdate ==
    /\ pc = "idle"
    /\ frame < MaxFrames
    /\ frame' = frame + 1
    /\ surface_texture' = "none"
    /\ encoder' = <<>>
    /\ pc' = "acquire"
    /\ light_buffer' = UniformLight_from(app_state.light_position)
    /\ geoms' = DefaultRenderer_update(geoms, app_state)
    /\ UNCHANGED <<max_multiview_view_count, projections, texture_views,
                   depth_buffer_views, render_bundle, cascade_passes,
                   render_draw_count, submitted, presented, fault>>
    /\ UNCHANGED <<main_render_bundle, depth_texture, surface_config,
                   app_state>>
    /\ UNCHANGED load_vars
    /\ UNCHANGED tbn_vars
    /\ UNCHANGED debug_renderer

\* window/app.rs:230-241: get_current_texture().expect(..) and the new
\* command encoder; an Err makes expect panic
Acquire ==
    /\ pc = "acquire"
    /\ \E ok \in BOOLEAN :
          IF ok
             THEN /\ surface_texture' = "acquired"
                  /\ pc' = "render"
                  /\ fault' = fault
             ELSE /\ surface_texture' = "error"
                  /\ pc' = "crashed"
                  /\ fault' = "surface_acquire"
    /\ UNCHANGED <<max_multiview_view_count, projections, texture_views,
                   depth_buffer_views, render_bundle, cascade_passes, frame,
                   encoder, render_draw_count, submitted, presented>>
    /\ UNCHANGED app_vars
    /\ UNCHANGED load_vars
    /\ UNCHANGED tbn_vars

\* window/app.rs:245-247 calling DefaultRenderer::render (renderer.rs:617-654):
\* the offscreen cascade, then the main pass
Render ==
    /\ pc = "render"
    /\ render_draw_count' =
          IF cascade_passes > 0
             THEN MultiviewDrawCount(max_multiview_view_count)
             ELSE render_draw_count
    /\ IF cascade_passes > GENERATIONS
          THEN /\ encoder' = encoder \o OffscreenRender(cascade_passes)
               /\ pc' = "crashed"
               /\ fault' = "bundle_index"
          ELSE /\ encoder' = encoder \o OffscreenRender(cascade_passes)
                                     \o MainPass
               /\ pc' = "ui"
               /\ fault' = fault
    /\ UNCHANGED <<max_multiview_view_count, projections, texture_views,
                   depth_buffer_views, render_bundle, cascade_passes, frame,
                   surface_texture, submitted, presented>>
    /\ UNCHANGED app_vars
    /\ UNCHANGED load_vars
    /\ UNCHANGED tbn_vars

\* window/app.rs:249-262: the egui overlay drawn into the same encoder
Ui ==
    /\ pc = "ui"
    /\ encoder' = encoder \o UiPass
    /\ pc' = "submit"
    /\ \E edit \in LightEdits(app_state), click \in BOOLEAN :
          app_state' = widget_show(app_state, edit, click)
    /\ UNCHANGED <<max_multiview_view_count, projections, texture_views,
                   depth_buffer_views, render_bundle, cascade_passes, frame,
                   surface_texture, render_draw_count, submitted, presented,
                   fault>>
    /\ UNCHANGED <<geoms, main_render_bundle, light_buffer, depth_texture,
                   surface_config>>
    /\ UNCHANGED load_vars
    /\ UNCHANGED tbn_vars
    /\ UNCHANGED debug_renderer

\* window/app.rs:263: queue.submit(Some(encoder.finish()))
Submit ==
    /\ pc = "submit"
    /\ submitted' = Append(submitted, [frame |-> frame, commands |-> encoder])
    /\ pc' = "present"
    /\ UNCHANGED <<max_multiview_view_count, projections, texture_views,
                   depth_buffer_views, render_bundle, cascade_passes, frame,
                   surface_texture, encoder, render_draw_count, presented,
                   fault>>
    /\ UNCHANGED app_vars
    /\ UNCHANGED load_vars
    /\ UNCHANGED tbn_vars

\* window/app.rs:264 and 304: surface_texture.present(), then the handler
\* returns and requests the next redraw
Present ==
    /\ pc = "present"
    /\ presented' = Append(presented, frame)
    /\ pc' = "idle"
    /\ UNCHANGED <<max_multiview_view_count, projections, texture_views,
                   depth_buffer_views, render_bundle, cascade_passes, frame,
                   surface_texture, encoder, render_draw_count, submitted,
                   fault>>
    /\ UNCHANGED app_vars
    /\ UNCHANGED load_vars
    /\ UNCHANGED tbn_vars

\* window/app.rs:306-308, 216-218 and 104-110: a Resized event between two
\* redraws; DefaultRenderer::resize (renderer.rs:656-666) recreates the depth
\* texture and OffScreenRenderer::resize (renderer.rs:1103-1105) is empty
Resize ==
    /\ pc = "idle"
    /\ \E size \in ResizeSizes :
          /\ surface_config' = [width |-> size[1], height |-> size[2]]
          /\ depth_texture' =
                DepthExtent([width |-> size[1], height |-> size[2]])
    /\ UNCHANGED <<geoms, main_render_bundle, light_buffer, app_state>>
    /\ UNCHANGED render_vars
    /\ UNCHANGED load_vars
    /\ UNCHANGED tbn_vars
    /\ UNCHANGED debug_renderer

Next ==
    \/ RedrawUpdate
    \/ Acquire
    \/ Render
    \/ Ui
    \/ Submit
    \/ Present
    \/ Resize

Spec == Init /\ [][Next]_vars

-----------------------------------------------------------------------------
(* OffscreenSpec: OffScreenRenderer::new called on the finished             *)
(* DefaultRenderer (renderer.rs:609-611), then the redraw handler           *)

\* renderer.rs:595-608: offscreen_renderer is still None
OffscreenInit ==
    /\ max_multiview_view_count = 0
    /\ projections = <<>>
    /\ texture_views = <<>>
    /\ depth_buffer_views = <<>>
    /\ render_bundle = <<>>
    /\ cascade_passes \in 0 .. MaxPasses
    /\ pc = "new"
    /\ frame = 0
    /\ surface_texture = "none"
    /\ encoder = <<>>
    /\ render_draw_count = 0
    /\ submitted = <<>>
    /\ presented = <<>>
    /\ fault = "none"
    /\ TbnIdle
    /\ Constructed(SceneAsset)

\* renderer.rs:700-716: the limit is what the Vulkan query wrote into
\* multiview_prop, or the Default 0 when the device is not a Vulkan device;
\* SLICES / 0 and SLICES % 0 panic. renderer.rs:718-1045 builds the rest.
OffScreenRenderer_new ==
    /\ pc = "new"
    /\ \E m \in 0 .. MaxM :
          /\ max_multiview_view_count' = m
          /\ IF m = 0
                THEN /\ pc' = "crashed"
                     /\ fault' = "divide_by_zero"
                     /\ UNCHANGED <<projections, texture_views,
                                    depth_buffer_views, render_bundle>>
                ELSE /\ pc' = "idle"
                     /\ fault' = fault
                     /\ projections' = BuildProjections(m)
                     /\ texture_views' = BuildViews(m, "color")
                     /\ depth_buffer_views' = BuildViews(m, "depth")
                     /\ render_bundle' = BuildRenderBundles(m)
    /\ UNCHANGED <<cascade_passes, frame, surface_texture, encoder,
                   render_draw_count, submitted, presented>>
    /\ UNCHANGED app_vars
    /\ UNCHANGED load_vars
    /\ UNCHANGED tbn_vars

OffscreenNext ==
    \/ OffScreenRenderer_new
    \/ Next

OffscreenSpec == OffscreenInit /\ [][OffscreenNext]_vars

-----------------------------------------------------------------------------
(* WidgetSpec: widget_show (widget.rs:7-47) applied again and again to the  *)
(* AppState of a scene without a light sub-mesh                             *)

WidgetInit ==
    /\ AppIdle
    /\ LoadIdle
    /\ RenderIdle
    /\ TbnIdle

WidgetShow ==
    /\ \E edit \in LightEdits(app_state), click \in BOOLEAN :
          app_state' = widget_show(app_state, edit, click)
    /\ UNCHANGED <<geoms, main_render_bundle, light_buffer, depth_texture,
                   surface_config>>
    /\ UNCHANGED load_vars
    /\ UNCHANGED render_vars
    /\ UNCHANGED tbn_vars
    /\ UNCHANGED debug_renderer

WidgetSpec == WidgetInit /\ [][WidgetShow]_vars

-----------------------------------------------------------------------------
(* Claims about the offscreen cascade and the frame *)

OffscreenOps(cmds) == {n \in DOMAIN cmds : cmds[n].op = "offscreen_pass"}

\* the least k with k * b >= a
CeilDiv(a, b) == CHOOSE k \in 0 .. a : k * b >= a /\ (k - 1) * b < a

\* C1: for every multiview limit M >= 1 the number of offscreen batches, as
\* computed in new (the length of every per-batch array it builds) and in
\* render, equals ceil(256 / M); M = 16 gives 16 and M = 7 gives 37.
C1_BatchCount ==
    LET m == max_multiview_view_count
        k == CeilDiv(SLICES, m)
    IN  /\ DOMAIN projections = 0 .. (k - 1)
        /\ \A idx \in DOMAIN render_bundle :
              DOMAIN render_bundle[idx] = 0 .. (k - 1)
        /\ render_draw_count # 0 => render_draw_count = k
        /\ \A f \in DOMAIN submitted :
              Cardinality(OffscreenOps(submitted[f].commands))
                 = cascade_passes * k * AXES
        /\ m = 16 => k = 16
        /\ m = 7 => k = 37

C1_Witness ==
    /\ max_multiview_view_count = 7
    /\ render_draw_count = 37
    /\ Cardinality(DOMAIN projections) = 37
    /\ Len(submitted) > 0

\* C2 (as claimed): when M does not divide 256, no projection matrix is built
\* for a global slice index i*M+k >= 256, for any batch i and layer k.
C2_Original ==
    SLICES % max_multiview_view_count # 0 =>
        \A i \in DOMAIN projections :
            \A j \in DOMAIN projections[i] :
                \A k \in DOMAIN projections[i][j] :
                    projections[i][j][k].slice < SLICES

\* C3: every offscreen render pass recorded for pass index p, batch i and
\* axis j writes the color and depth views of generation (p+1) mod 2.
C3_WriteGeneration ==
    \A n \in OffscreenOps(encoder) :
        LET c == encoder[n]
        IN  /\ c.color.generation = (c.pass + 1) % 2
            /\ c.depth.generation = (c.pass + 1) % 2
            /\ c.color.kind = "color"
            /\ c.depth.kind = "depth"
            /\ c.color = texture_views[(c.pass + 1) % 2][c.axis][c.batch]
            /\ c.depth = depth_buffer_views[(c.pass + 1) % 2][c.axis][c.batch]

C3_Witness ==
    /\ \E n \in OffscreenOps(encoder) :
          encoder[n].pass = 0 /\ encoder[n].color.generation = 1
    /\ \E n \in OffscreenOps(encoder) :
          encoder[n].pass = 1 /\ encoder[n].depth.generation = 0

RenderReturned == pc \in {"ui", "submit", "present"}

\* C4 (as claimed): for every value of cascade_passes and every p below it,
\* the bundle replayed on pass p is the one recorded against generation
\* p mod 2, and every pass of the frame completes.
C4_Original ==
    /\ fault # "bundle_index"
    /\ RenderReturned =>
          \A p \in 0 .. (cascade_passes - 1) :
              \A i \in DOMAIN projections :
                  \A j \in 0 .. (AXES - 1) :
                      \E n \in OffscreenOps(encoder) :
                          /\ encoder[n].pass = p
                          /\ encoder[n].batch = i
                          /\ encoder[n].axis = j
                          /\ encoder[n].bundle = render_bundle[p % 2][i][j]

\* C5 (as claimed): a failed surface acquisition drops only that frame: the
\* process keeps running and nothing of that frame is submitted or presented.
C5_Original ==
    surface_texture = "error" =>
        /\ pc # "crashed"
        /\ \A f \in DOMAIN submitted : submitted[f].frame # frame
        /\ \A f \in DOMAIN presented : presented[f] # frame

Rank(op) ==
    CASE op = "offscreen_pass"      -> 0
      [] op = "begin_main_pass"     -> 1
      [] op = "execute_main_bundle" -> 2
      [] op = "debug_draw"          -> 3
      [] op = "ui_pass"             -> 4

\* offscreen passes first, then begin, bundle, debug draw, overlay, each of
\* the last four at most once and only right after its predecessor
Ordered(cmds) ==
    \A n \in DOMAIN cmds :
        /\ Rank(cmds[n].op) >= 2 =>
              n > 1 /\ Rank(cmds[n - 1].op) = Rank(cmds[n].op) - 1
        /\ Rank(cmds[n].op) = 1 =>
              /\ n > 1 => Rank(cmds[n - 1].op) = 0
              /\ cmds[n].clear = <<0, 0, 0, 1>>
              /\ cmds[n].clear_depth = 1
        /\ (Rank(cmds[n].op) = 0 /\ n > 1) => Rank(cmds[n - 1].op) = 0

Complete(cmds) ==
    /\ Len(cmds) >= 4
    /\ cmds[Len(cmds)].op = "ui_pass"

\* C6: within a frame the offscreen passes are recorded first, then the main
\* pass (clear to opaque black and depth 1.0, main bundle, debug draw), then
\* the UI overlay, then submit, then present; no step of frame n+1 starts
\* before frame n has been presented.
C6_FrameOrder ==
    /\ Ordered(encoder)
    /\ pc \in {"ui"} => Len(encoder) >= 3 /\ encoder[Len(encoder)].op = "debug_draw"
    /\ pc \in {"submit", "present"} => Complete(encoder)
    /\ \A f \in DOMAIN submitted :
          /\ submitted[f].frame = f
          /\ Ordered(submitted[f].commands)
          /\ Complete(submitted[f].commands)
    /\ \A f \in DOMAIN presented :
          presented[f] = f /\ f \in DOMAIN submitted
    /\ pc = "idle" => Len(presented) = frame /\ Len(submitted) = frame
    /\ pc \in {"acquire", "render", "ui", "submit", "crashed"} =>
          Len(presented) = frame - 1 /\ Len(submitted) = frame - 1
    /\ pc = "present" =>
          Len(presented) = frame - 1 /\ Len(submitted) = frame

C6_Witness ==
    /\ Len(presented) = 2
    /\ cascade_passes = 2
    /\ pc = "idle"

-----------------------------------------------------------------------------
(* Claims about the tangent-space solver *)

\* determinant of the 2x2 UV-delta matrix
Det(d) ==
    FSub(FMul(d.delta_uv1[1], d.delta_uv2[2]),
         FMul(d.delta_uv1[2], d.delta_uv2[1]))

NonSingular(d) == ~FIsZero(Det(d))

\* x * T + y * B
Combine(x, t, y, b) == VAdd(VScale(t, x), VScale(b, y))

\* C7 (as claimed): for every triangle whose UV-delta matrix is non-singular,
\* tb_solver returns (T, B) with delta_pos1 = delta_uv1.x*T + delta_uv1.y*B
\* and delta_pos2 = delta_uv2.x*T + delta_uv2.y*B.
C7_Original ==
    (tri > 0 /\ NonSingular(Deltas(mesh, tri))) =>
        /\ last_solve.some
        /\ Deltas(mesh, tri).delta_pos1 =
              Combine(Deltas(mesh, tri).delta_uv1[1], last_solve.t,
                      Deltas(mesh, tri).delta_uv1[2], last_solve.b)
        /\ Deltas(mesh, tri).delta_pos2 =
              Combine(Deltas(mesh, tri).delta_uv2[1], last_solve.t,
                      Deltas(mesh, tri).delta_uv2[2], last_solve.b)

IsUnit(v) == LengthSquared(v) = F(1)

\* C8 (as claimed): for every triangle with a non-singular UV mapping,
\* whatever its positions, the tangent and bitangent are linearly independent
\* and the normal candidate is normalize(cross(bitangent, tangent)), a
\* well-defined unit vector.
C8_Original ==
    (tri > 0 /\ NonSingular(Deltas(mesh, tri))) =>
        /\ last_solve.some
        /\ cross(last_solve.b, last_solve.t) # Vec3_ZERO
        /\ last_normal = normalize(cross(last_solve.b, last_solve.t))
        /\ IsUnit(last_normal)

Collinear(d) == cross(d.delta_pos1, d.delta_pos2) = Vec3_ZERO

\* C8 (amended): for every triangle with a non-singular UV mapping whose
\* positions are not collinear, the tangent and bitangent are linearly
\* independent and the normal candidate is normalize(cross(bitangent,
\* tangent)), a well-defined unit vector; with collinear positions the
\* tangent and bitangent are linearly dependent.
C8_Amended ==
    (tri > 0 /\ NonSingular(Deltas(mesh, tri))) =>
        /\ last_solve.some
        /\ ~Collinear(Deltas(mesh, tri)) =>
              /\ cross(last_solve.b, last_solve.t) # Vec3_ZERO
              /\ last_normal = normalize(cross(last_solve.b, last_solve.t))
              /\ ~(\E c \in DOMAIN last_normal : IsNaN(last_normal[c]))
              /\ IsUnit(last_normal)
        /\ Collinear(Deltas(mesh, tri)) =>
              cross(last_solve.b, last_solve.t) = Vec3_ZERO

C8_Witness ==
    /\ tri = 2
    /\ NonSingular(Deltas(mesh, 2))
    /\ ~Collinear(Deltas(mesh, 2))
    /\ Deltas(mesh, 2).delta_uv1[2] # Deltas(mesh, 2).delta_uv2[1]
    /\ last_solve.some
    /\ last_normal \in {Vec3_Z, VScale(Vec3_Z, F(-1))}
    /\ \E c \in 1 .. 3 : last_solve.t[c][2] = 2

HasNaN(v) == \E c \in DOMAIN v : IsNaN(v[c])

\* C9 (as claimed): tbn never outputs an undefined (NaN) value: every vertex,
\* also one with counter > 0 and a zero accumulated sum, gets a defined
\* tangent, bitangent and normal.
C9_Original ==
    tbn_out.done =>
        \A v \in DOMAIN tbn_out.tangents :
            /\ ~HasNaN(tbn_out.tangents[v])
            /\ ~HasNaN(tbn_out.bitangents[v])
            /\ ~HasNaN(tbn_out.normals[v])

C11_Fallback ==
    tbn_out.done =>
        /\ DOMAIN tbn_out.tangents = DOMAIN vertices(mesh)
        /\ \A v \in DOMAIN vertices(mesh) :
              count_triangles_included[v] = 0 =>
                  /\ tbn_out.tangents[v] = <<<<1, 1>>, <<0, 1>>, <<0, 1>>>>
                  /\ tbn_out.bitangents[v] = <<<<0, 1>>, <<1, 1>>, <<0, 1>>>>
                  /\ tbn_out.normals[v] = <<<<0, 1>>, <<0, 1>>, <<1, 1>>>>
        /\ \A v \in DOMAIN vertices(mesh) :
              (\A t \in 1 .. NumTriangles(mesh) :
                  (\E c \in 1 .. 3 : Chunk(mesh, t)[c] = v) =>
                      ~NonSingular(Deltas(mesh, t)))
                  => count_triangles_included[v] = 0
        /\ Len(mesh.texcoords) # Len(mesh.positions) =>
              \A v \in DOMAIN vertices(mesh) :
                  /\ temp_texcoords(mesh)[v] = <<<<0, 1>>, <<0, 1>>>>
                  /\ count_triangles_included[v] = 0

C11_Witness ==
    /\ tbn_out.done
    /\ Len(mesh.texcoords) = Len(mesh.positions)
    /\ NumTriangles(mesh) = 2
    /\ \E v \in DOMAIN vertices(mesh) :
          /\ count_triangles_included[v] = 0
          /\ \E t \in 1 .. 2 : \E c \in 1 .. 3 : Chunk(mesh, t)[c] = v
          /\ tbn_out.tangents[v] = Vec3_X
          /\ tbn_out.normals[v] = Vec3_Z
    /\ \E v \in DOMAIN vertices(mesh) : count_triangles_included[v] > 0

-----------------------------------------------------------------------------
(* Claims about the construction of the offscreen renderer *)

SignedAxes ==
    {<<1, 0, 0>>, <<-1, 0, 0>>, <<0, 1, 0>>, <<0, -1, 0>>, <<0, 0, 1>>,
     <<0, 0, -1>>}

\* C12 (as claimed): for axis index j in 0..6 the direction vectors handed to
\* DirectionalProjection are exactly {+X, -X, +Y, -Y, +Z, -Z}, one per j.
C12_Original ==
    \A i \in DOMAIN projections :
        /\ {projections[i][j][0].direction : j \in DOMAIN projections[i]}
              = SignedAxes
        /\ \A j1 \in DOMAIN projections[i], j2 \in DOMAIN projections[i] :
              j1 # j2 =>
                  projections[i][j1][0].direction
                      # projections[i][j2][0].direction

\* C13 (as claimed): the view count of the offscreen render pipeline, the view
\* count of every offscreen render bundle and the layer count of every
\* attachment view all equal the queried limit M, for every M.
C13_Original ==
    /\ render_pipeline(max_multiview_view_count).multiview
          = max_multiview_view_count
    /\ \A idx \in DOMAIN render_bundle :
          \A i \in DOMAIN render_bundle[idx] :
              \A j \in DOMAIN render_bundle[idx][i] :
                  render_bundle[idx][i][j].multiview = max_multiview_view_count
    /\ \A idx \in DOMAIN texture_views :
          \A j \in DOMAIN texture_views[idx] :
              \A i \in DOMAIN texture_views[idx][j] :
                  /\ texture_views[idx][j][i].array_layer_count
                        = max_multiview_view_count
                  /\ depth_buffer_views[idx][j][i].array_layer_count
                        = max_multiview_view_count

-----------------------------------------------------------------------------
(* Claims about resizing and the light uniform *)

\* C14: resize changes only the main depth buffer. In every state of the frame
\* loop, whatever Resized events were handled, the geometry list, the main
\* draw bundle and the offscreen projections, views and bundles are the ones
\* built at construction, and the depth texture measures max(width, 1) by
\* max(height, 1) of the current surface configuration, so that two resize
\* calls with the same dimensions give depth buffers of the same size.
C14_ResizeOnlyDepth ==
    /\ geoms = [i \in 1 .. Len(load_result.models) |->
                    Geom_new(load_result.models[i])]
    /\ main_render_bundle = main_render_bundle_new(geoms)
    /\ projections = BuildProjections(max_multiview_view_count)
    /\ texture_views = BuildViews(max_multiview_view_count, "color")
    /\ depth_buffer_views = BuildViews(max_multiview_view_count, "depth")
    /\ render_bundle = BuildRenderBundles(max_multiview_view_count)
    /\ depth_texture.width =
          (IF surface_config.width >= 1 THEN surface_config.width ELSE 1)
    /\ depth_texture.height =
          (IF surface_config.height >= 1 THEN surface_config.height ELSE 1)
    /\ depth_texture.depth_or_array_layers = 1

\* a frame was drawn and the window was then resized to 0 x 0
C14_Witness ==
    /\ frame > 0
    /\ pc = "idle"
    /\ surface_config = [width |-> 0, height |-> 0]
    /\ depth_texture = [width |-> 1, height |-> 1, depth_or_array_layers |-> 1]
    /\ Len(geoms) = 2

\* C15: when the loaded scene has a light sub-mesh, the light uniform buffer
\* holds that sub-mesh's centroid after construction and after any number of
\* per-frame update calls.
C15_Original ==
    is_some(load_result.light) =>
        light_buffer = UniformLight_from(load_result.light[1])

-----------------------------------------------------------------------------
(* Claims about loading a scene and building its geometry *)

\* the sub-model i of the asset has a resolvable material that satisfies the
\* light predicate
IsLightModel(i) ==
    /\ asset.models[i].mesh.material_id # <<>>
    /\ asset.models[i].mesh.material_id[1] < Len(asset.materials)
    /\ asset.materials[asset.models[i].mesh.material_id[1] + 1].name = "Light"

\* C16: ObjScene::load returns as light the arithmetic mean of the vertex
\* positions of the first sub-model, in loader order, whose material satisfies
\* light_predicate, whatever later sub-models match, and None when no
\* sub-model with a resolvable material matches.
C16_FirstLight ==
    (load_pc # "new" /\ load_result.ok) =>
        IF \E i \in DOMAIN asset.models : IsLightModel(i)
           THEN \E i \in DOMAIN asset.models :
                   /\ IsLightModel(i)
                   /\ \A k \in 1 .. (i - 1) : ~IsLightModel(k)
                   /\ load_result.light =
                         <<PositionAverage(asset.models[i])>>
           ELSE load_result.light = <<>>

\* two light sub-models with different means: the light is the first one's
C16_Witness ==
    /\ load_pc = "done"
    /\ Len(asset.models) = 2
    /\ IsLightModel(1)
    /\ IsLightModel(2)
    /\ asset.models[1].mesh.positions = LampShape
    /\ asset.models[2].mesh.positions = FloorShape
    /\ load_result.light = <<vec3(1, 1, 6)>>

\* a texture path of a material that names no decodable image file
BadTexture(path) == path # <<>> /\ path[1] # "image"

\* the asset has an error: the OBJ file, the material library, or a texture
\* of a material that a sub-model uses
AssetError ==
    \/ asset.obj # "ok"
    \/ asset.mtl # "ok"
    \/ \E i \in DOMAIN asset.models :
          /\ asset.models[i].mesh.material_id # <<>>
          /\ asset.models[i].mesh.material_id[1] < Len(asset.materials)
          /\ LET mt == asset.materials[asset.models[i].mesh.material_id[1] + 1]
             IN  BadTexture(mt.diffuse_texture) \/ BadTexture(mt.normal_texture)

\* C17: every asset error aborts scene construction: with a missing or
\* malformed OBJ or material library, or a material texture that cannot be
\* opened or decoded, no geometry is built.
C17_Original == AssetError => geoms = <<>>

\* the number of floats of a vertex format
FormatFloats(format) == IF format = "Float32x3" THEN 3 ELSE 2

\* the floats of vertex v of a buffer that attribute k of the vertex
\* descriptor addresses
AttributeSlice(buffer, v, k) ==
    LET start == ((v - 1) * vertex_descriptor.array_stride
                    + vertex_descriptor.attributes[k].offset) \div 4
    IN  SubSeq(buffer, start + 1,
               start + FormatFloats(vertex_descriptor.attributes[k].format))

\* the vertex buffer of geometry i against the mesh it was built from
BufferLayout(i) ==
    LET md     == asset.models[i].mesh
        buffer == geoms[i].vertex_buffer
        n      == Len(md.positions)
    IN  /\ Len(buffer) = 17 * n
        /\ \E t \in {tbn(md)} : \A v \in 1 .. n :
              /\ AttributeSlice(buffer, v, 1) = md.positions[v]
              /\ v <= Len(md.vertex_color) =>
                    AttributeSlice(buffer, v, 2) = md.vertex_color[v]
              /\ v <= Len(md.normals) =>
                    AttributeSlice(buffer, v, 3) = md.normals[v]
              /\ AttributeSlice(buffer, v, 4) = t.tangents[v]
              /\ AttributeSlice(buffer, v, 5) = t.bitangents[v]
              /\ Len(md.texcoords) = n =>
                    AttributeSlice(buffer, v, 6) = md.texcoords[v]

\* C18: for every model with n vertices the interleaved vertex buffer holds
\* 17*n floats, each vertex laid out as position, color, normal, tangent,
\* bitangent (3 floats each) and texcoord (2 floats) in that order, and the
\* vertex descriptor has a stride of 17 floats and attribute offsets of
\* 0, 3, 6, 9, 12 and 15 floats.
C18_Layout ==
    /\ vertex_descriptor.array_stride = 17 * 4
    /\ [k \in 1 .. 6 |-> vertex_descriptor.attributes[k].offset]
          = <<0 * 4, 3 * 4, 6 * 4, 9 * 4, 12 * 4, 15 * 4>>
    /\ [k \in 1 .. 6 |->
            FormatFloats(vertex_descriptor.attributes[k].format)]
          = <<3, 3, 3, 3, 3, 2>>
    /\ \A i \in DOMAIN geoms : BufferLayout(i)

\* a built model of four vertices with every attribute in its file, the last
\* vertex carrying six different attribute values
C18_Witness ==
    /\ Len(geoms) = 1
    /\ Len(asset.models[1].mesh.positions) = 4
    /\ Len(geoms[1].vertex_buffer) = 68
    /\ AttributeSlice(geoms[1].vertex_buffer, 4, 2) = FileColor(4)
    /\ AttributeSlice(geoms[1].vertex_buffer, 4, 3) = FileNormal(4)
    /\ AttributeSlice(geoms[1].vertex_buffer, 4, 6) = vec2(1, 1)
    /\ AttributeSlice(geoms[1].vertex_buffer, 4, 4)
          # AttributeSlice(geoms[1].vertex_buffer, 4, 5)
    /\ AttributeSlice(geoms[1].vertex_buffer, 4, 4) # Vec3_X
    /\ AttributeSlice(geoms[1].vertex_buffer, 4, 1)
          \notin {FileColor(4), FileNormal(4)}

\* the vertices of geometry i past the end of an attribute list carry the
\* default of that attribute
BufferDefaults(i) ==
    LET md     == asset.models[i].mesh
        buffer == geoms[i].vertex_buffer
        n      == Len(md.positions)
    IN  \A v \in 1 .. n :
           /\ v > Len(md.vertex_color) =>
                 AttributeSlice(buffer, v, 2) = vec3(1, 1, 1)
           /\ v > Len(md.normals) =>
                 AttributeSlice(buffer, v, 3) = vec3(0, 0, 1)
           /\ Len(md.texcoords) # n =>
                 AttributeSlice(buffer, v, 6) = vec2(0, 0)

\* C19: every vertex whose index is at or beyond the length of an attribute
\* list carries the fixed default of that attribute: color (1,1,1), normal
\* (0,0,1), texcoord (0,0); a model with no normals gets normal +Z at every
\* vertex. (The tangent and bitangent lists are computed and always have one
\* entry per vertex.)
C19_Original == \A i \in DOMAIN geoms : BufferDefaults(i)

\* the loaded model i has no material, or one with every field absent
AllAbsent(i) ==
    \/ load_result.models[i].materials = <<>>
    \/ /\ load_result.models[i].materials # <<>>
       /\ LET mt == load_result.models[i].materials[1]
          IN  /\ mt.ambient = <<>>
              /\ mt.diffuse = <<>>
              /\ mt.specular = <<>>
              /\ mt.shininess = <<>>
              /\ mt.diffuse_texture = <<>>
              /\ mt.normal_texture = <<>>

\* the first three components are zero and the 4th is negative
AbsentChannel(v) ==
    /\ SubSeq(v, 1, 3) = vec3(0, 0, 0)
    /\ v[4][1] < 0
    /\ v[4][2] > 0

AbsentBlock(u) ==
    /\ AbsentChannel(u.ambient)
    /\ AbsentChannel(u.diffuse)
    /\ AbsentChannel(u.specular)

\* C20: encoding a material record with every field absent, or no material
\* at all, yields a uniform block whose ambient, diffuse and specular have
\* the first three components zero and the 4th negative, and a
\* texture-enable bitmask of 0; for the encoder of primitives.rs with the
\* renderer's bitmask and for the encoder of vertex.rs.
C20_Original ==
    /\ \A i \in DOMAIN geoms :
          AllAbsent(i) =>
             /\ AbsentBlock(geoms[i].material_bind_group[1])
             /\ geoms[i].enable_bit = 0
             /\ geoms[i].enable_bit_buffer = 0
    /\ \A i \in DOMAIN vertex_uniforms :
          AllAbsent(i) => AbsentBlock(vertex_uniforms[i])

-----------------------------------------------------------------------------
(* Claims about the material encoding and the main bundle *)

\* a present channel keeps its three components and gets a positive 4th
PresentChannel(input, v) ==
    input # <<>> =>
        /\ SubSeq(v, 1, 3) = input[1]
        /\ v[4][1] > 0
        /\ v[4][2] > 0

\* the uniform block u encodes the tobj material mt as the claim says
EncodesMaterial(mt, u) ==
    /\ PresentChannel(mt.ambient, u.ambient)
    /\ PresentChannel(mt.diffuse, u.diffuse)
    /\ PresentChannel(mt.specular, u.specular)
    /\ u.shininess = (IF mt.shininess # <<>> THEN mt.shininess[1] ELSE F(1))

\* C21: encoding a material record yields ambient, diffuse and specular
\* vectors whose first three components equal the inputs and whose 4th
\* component is positive where the input is present, and a shininess equal to
\* the input value, an absent shininess being encoded as 1.0; for the encoder
\* of primitives.rs and for the encoder of vertex.rs.
C21_Original ==
    /\ \A i \in DOMAIN geoms :
          load_result.models[i].materials # <<>> =>
             EncodesMaterial(load_result.models[i].materials[1],
                             geoms[i].material_bind_group[1])
    /\ \A i \in DOMAIN vertex_uniforms :
          load_result.models[i].materials # <<>> =>
             EncodesMaterial(load_result.models[i].materials[1],
                             vertex_uniforms[i])

\* the texture file path names was opened and decoded for loaded model i
TextureLoaded(i, field) ==
    /\ load_result.models[i].materials # <<>>
    /\ load_result.models[i].materials[1][field] = <<"image">>

\* bit b of the unsigned number x
Bit(x, b) == (x \div (2 ^ b)) % 2

\* C22: for every geometry the enable bitmask built at load time has bit 0
\* set exactly when a color texture was loaded, bit 1 set exactly when a
\* normal texture was loaded and no other bit set; the material bind group
\* always has six bindings, a placeholder texture standing for an absent one.
C22_EnableBits ==
    \A i \in DOMAIN geoms :
       /\ (Bit(geoms[i].enable_bit, 0) = 1) <=> TextureLoaded(i, "diffuse_texture")
       /\ (Bit(geoms[i].enable_bit, 1) = 1) <=> TextureLoaded(i, "normal_texture")
       /\ geoms[i].enable_bit \in 0 .. 3
       /\ geoms[i].enable_bit_buffer = geoms[i].enable_bit
       /\ Len(geoms[i].material_bind_group) = 6
       /\ geoms[i].material_bind_group[2] = geoms[i].enable_bit_buffer
       /\ geoms[i].material_bind_group[3] =
             (IF TextureLoaded(i, "diffuse_texture") THEN "image"
                                                     ELSE "empty_2d")
       /\ geoms[i].material_bind_group[5] =
             (IF TextureLoaded(i, "normal_texture") THEN "image"
                                                    ELSE "empty_2d")
       /\ geoms[i].material_bind_group[4] = "sampler"
       /\ geoms[i].material_bind_group[6] = "sampler"

\* a geometry with a color texture and no normal texture: bitmask 1 and the
\* placeholder in the normal texture's binding
C22_Witness ==
    /\ load_pc = "done"
    /\ Len(geoms) = 2
    /\ TextureLoaded(2, "diffuse_texture")
    /\ load_result.models[2].materials[1].normal_texture = <<>>
    /\ geoms[2].enable_bit = 1
    /\ geoms[2].material_bind_group[5] = "empty_2d"
    /\ load_result.models[1].materials # <<>>
    /\ load_result.models[1].materials[1].diffuse_texture = <<"missing">>
    /\ geoms[1].enable_bit = 0

\* the places of the indexed draws in the main bundle, in order
DrawPlaces ==
    SelectSeq([p \in DOMAIN main_render_bundle |-> p],
              LAMBDA p : main_render_bundle[p].op = "draw_indexed")

\* C23: the main draw bundle, recorded once at the end of construction,
\* contains exactly one indexed draw per geometry, in model load order, each
\* directly preceded by the binding of that geometry's material bind group,
\* vertex buffer and index buffer, and each covering the geometry's full
\* index range 0 .. indices.len().
C23_MainBundle ==
    /\ load_pc # "done" => main_render_bundle = <<>>
    /\ load_pc = "done" =>
          /\ Len(DrawPlaces) = Len(geoms)
          /\ \A n \in DOMAIN DrawPlaces :
                LET p == DrawPlaces[n]
                IN  /\ p > 3
                    /\ main_render_bundle[p] =
                          [op |-> "draw_indexed", geom |-> n, first |-> 0,
                           count |-> Len(geoms[n].index_buffer)]
                    /\ main_render_bundle[p - 3] =
                          [op |-> "set_bind_group", index |-> 1, geom |-> n]
                    /\ main_render_bundle[p - 2] =
                          [op |-> "set_vertex_buffer", geom |-> n]
                    /\ main_render_bundle[p - 1] =
                          [op |-> "set_index_buffer", geom |-> n]

\* two geometries with index lists of different lengths, drawn in load order
C23_Witness ==
    /\ load_pc = "done"
    /\ Len(geoms) = 2
    /\ Len(geoms[1].index_buffer) = 6
    /\ Len(geoms[2].index_buffer) = 3
    /\ Len(main_render_bundle) = 11
    /\ main_render_bundle[7].count = 6
    /\ main_render_bundle[11].count = 3

\* C24: indices() exposes every source triangle (a,b,c) as (c,b,a): the index
\* buffer of a geometry has the length of the source index list, its
\* triangle t is the reverse of the source's triangle t, and reversing it
\* once more gives back the source order.
C24_Reversed ==
    \A i \in DOMAIN geoms :
       LET source == asset.models[i].mesh.indices
           output == geoms[i].index_buffer
       IN  /\ Len(output) = Len(source)
           /\ \A t \in 0 .. ((Len(source) \div 3) - 1) :
                 /\ output[3 * t + 1] = source[3 * t + 3]
                 /\ output[3 * t + 2] = source[3 * t + 2]
                 /\ output[3 * t + 3] = source[3 * t + 1]
           /\ indices([indices |-> output]) = source

\* a built geometry of two different triangles
C24_Witness ==
    /\ Len(geoms) = 1
    /\ asset.models[1].mesh.indices = <<0, 1, 2, 0, 2, 3>>
    /\ geoms[1].index_buffer = <<2, 1, 0, 3, 2, 0>>

-----------------------------------------------------------------------------
(* Claims about the overlay *)

\* C25: for each of the three light-position text fields, an edit whose text
\* does not parse as a number leaves that coordinate of light_position at its
\* previous value, a parsable edit sets that coordinate to the number, and
\* the coordinates of the fields that were not edited do not change.
C25_LightFields ==
    [][\A c \in 1 .. 3 :
          app_state'.light_position[c] =
             IF app_state'.light_input[c] = app_state.light_input[c]
                THEN app_state.light_position[c]
                ELSE IF ParseF32(app_state'.light_input[c]) = <<>>
                        THEN app_state.light_position[c]
                        ELSE ParseF32(app_state'.light_input[c])[1]]_vars

\* the first field was set to 1 and then to a text that does not parse, the
\* second to 2.5, the third never edited
C25_Witness ==
    /\ app_state.light_input = <<"x", "2.5", "0.0">>
    /\ app_state.light_position = <<F(1), Rat(5, 2), F(0)>>

\* C26: once the update call that follows a toggle of the normal-map flag has
\* run, every geometry's enable-bit buffer equals its load-time enable bit,
\* with bit 1 cleared when normal mapping is disabled; the stored load-time
\* enable bit is never modified.
C26_Original ==
    pc \in {"acquire", "render"} =>
        \A i \in DOMAIN geoms :
           /\ geoms[i].enable_bit = Geom_new(load_result.models[i]).enable_bit
           /\ geoms[i].enable_bit_buffer =
                 (IF app_state.enable_normal_map
                     THEN geoms[i].enable_bit
                     ELSE geoms[i].enable_bit % 2)

-----------------------------------------------------------------------------
(* Claims about the limit and the layers of the offscreen renderer *)

\* C27: for every limit value the capability query can yield, including 0,
\* OffScreenRenderer::new and OffScreenRenderer::render compute the batch
\* count without a division by zero.
C27_Original == fault # "divide_by_zero"

\* the first array layer of a view and the first one after it
FirstLayer(view) == view.base_array_layer

EndLayer(view) == view.base_array_layer + view.array_layer_count

\* the view of batch i covers [i*M, i*M+M), inside the texture, and starts
\* no earlier than the view of batch i-1 ends, which keeps the views of one
\* generation and axis apart from each other
ViewsInLayers(views) ==
    LET m == max_multiview_view_count
        k == (SLICES + m - 1) \div m
    IN  /\ TextureLayers(m) = (IF m * k > 256 THEN m * k ELSE 256)
        /\ \A idx \in DOMAIN views : \A j \in DOMAIN views[idx] :
              /\ DOMAIN views[idx][j] = 0 .. (k - 1)
              /\ \A i \in DOMAIN views[idx][j] :
                    /\ FirstLayer(views[idx][j][i]) = i * m
                    /\ EndLayer(views[idx][j][i]) = i * m + m
                    /\ EndLayer(views[idx][j][i]) <= TextureLayers(m)
                    /\ i > 0 =>
                          EndLayer(views[idx][j][i - 1])
                             <= FirstLayer(views[idx][j][i])

\* C28: for every M >= 1, every generation, axis and batch i, the attachment
\* view covers array layers [i*M, i*M+M), which lies inside the texture's
\* layer count max(256, M*K); views of different batches of the same axis
\* never overlap, and the color view and the depth view of one render pass
\* cover the same layer range.
C28_ViewLayers ==
    /\ ViewsInLayers(texture_views)
    /\ ViewsInLayers(depth_buffer_views)
    /\ \A n \in DOMAIN encoder :
          encoder[n].op = "offscreen_pass" =>
             /\ FirstLayer(encoder[n].color) = FirstLayer(encoder[n].depth)
             /\ EndLayer(encoder[n].color) = EndLayer(encoder[n].depth)
             /\ encoder[n].color.axis = encoder[n].depth.axis
             /\ encoder[n].color.generation = encoder[n].depth.generation

\* M = 3 does not divide 256: the last batch of a recorded pass covers the
\* layers 255 .. 257 of a texture of 258 layers
C28_Witness ==
    /\ max_multiview_view_count = 3
    /\ pc = "ui"
    /\ \E n \in DOMAIN encoder :
          /\ encoder[n].op = "offscreen_pass"
          /\ encoder[n].batch = 85
          /\ FirstLayer(encoder[n].color) = 255
          /\ EndLayer(encoder[n].color) = 258
          /\ FirstLayer(encoder[n].depth) = 255
          /\ EndLayer(encoder[n].depth) = 258

\* C29: in every offscreen render pass that replays a bundle, the texture
\* generation the bundle samples through its scene bind group (scene bind
\* group idx holds the views of textures[idx]) differs from the generation
\* whose views are bound as color and depth attachments.
C29_ReadNotWritten ==
    \A n \in DOMAIN encoder :
       (encoder[n].op = "offscreen_pass" /\ encoder[n].bundle # NoBundle) =>
          /\ encoder[n].bundle.scene_bind_group \in 0 .. (GENERATIONS - 1)
          /\ encoder[n].bundle.scene_bind_group
                # encoder[n].color.generation
          /\ encoder[n].bundle.scene_bind_group
                # encoder[n].depth.generation

\* a frame of two passes: pass 0 samples generation 0 and writes generation
\* 1, pass 1 the other way round
C29_Witness ==
    /\ pc = "ui"
    /\ \E n \in DOMAIN encoder :
          /\ encoder[n].op = "offscreen_pass"
          /\ encoder[n].pass = 0
          /\ encoder[n].bundle.scene_bind_group = 0
          /\ encoder[n].color.generation = 1
    /\ \E n \in DOMAIN encoder :
          /\ encoder[n].op = "offscreen_pass"
          /\ encoder[n].pass = 1
          /\ encoder[n].bundle.scene_bind_group = 1
          /\ encoder[n].depth.generation = 0

-----------------------------------------------------------------------------
(* Claim about the debug renderer *)

\* C30: the debug light-indicator draw issues an indexed draw whose index
\* count equals the number of entries in its index buffer.
C30_Original ==
    DebugDraw(debug_renderer).count = Len(debug_renderer.index_buffer)

====
